---------------------------- MODULE Spec2Model ----------------------------
(***************************************************************************)
(* Model of think_parser.py: the recursive HTML-to-LaTeX emitter           *)
(* (html_to_latex), its text helper (clean_text), the regex clean-up       *)
(* (post_process_latex) and the command-line run (__main__).               *)
(*                                                                         *)
(* A Python str is a sequence of one-character strings.  A node of the     *)
(* parsed tree is a record                                                 *)
(*   [tag, cls, enc, str, kids]                                            *)
(* where tag = "#text" marks a NavigableString whose content is str, and   *)
(* any other tag is a Tag with class list cls, encoding attribute enc and  *)
(* children kids.                                                          *)
(***************************************************************************)
EXTENDS Integers, Sequences, FiniteSets, TLC

VARIABLES
    pc,         \* position of the run that the specification follows
    text,       \* post_process_latex: the string handed to the first call
    pass2,      \* post_process_latex: latex_code right after the second re.sub
    cleaned,    \* post_process_latex(text)
    recleaned,  \* post_process_latex(cleaned)
    node,       \* html_to_latex: the element handed to the outermost call
    emitted,    \* html_to_latex: [out, warns, visits] of the outermost call
    argc,       \* __main__: len(sys.argv)
    inFile,     \* __main__: "missing", "unreadable" or "ok"
    outOk,      \* __main__: "ok", "open_fails" or "write_fails" for the output path
    soup,       \* __main__: the parsed document held by the input file
    outFile,    \* __main__: the output file's state and content
    exitCode,   \* __main__: -1 while running, then the process's exit code
    ioLog       \* __main__: the file operations attempted, in order

vars == <<pc, text, pass2, cleaned, recleaned, node, emitted,
          argc, inFile, outOk, soup, outFile, exitCode, ioLog>>

cleanVars == <<text, pass2, cleaned, recleaned>>
emitVars  == <<node, emitted>>
mainVars  == <<argc, inFile, outOk, soup, outFile, exitCode, ioLog>>

\* the value of a string variable that the followed run does not use
Idle == <<"idle">>

\* the output file: "unopened", "truncated" (opened for writing, nothing
\* written) or "written" with its content
File(st, d) == [state |-> st, data |-> d]
NoFile == File("unopened", <<>>)

---------------------------------------------------------------------------
(* Bounds of the model.                                                    *)

\* longest string over {space, newline, letter} handed to post_process_latex
MaxLen == 8
\* longest string of tokens (with punctuation, tab and \item) handed to it
MaxTok == 4
\* longest raw content of a lone Text node
MaxText == 4
\* most children of an element of the enumerated trees
MaxKids == 2

---------------------------------------------------------------------------
(* Strings.                                                                *)

NL == "\n"
SP == " "
TAB == "\t"
BSL == "\\"

\* what \s matches and what str.strip() strips, within the model's alphabet
Whitespace == {SP, NL, TAB}
IsSpace(c) == c \in Whitespace

\* the character class [.,;:!?] of the first clean-up pass
Punct == {".", ",", ";", ":", "!", "?"}

\* the literal \item
ItemWord == <<BSL, "i", "t", "e", "m">>

RECURSIVE Flatten(_)
Flatten(ss) == IF ss = <<>> THEN <<>> ELSE Head(ss) \o Flatten(Tail(ss))

\* the sequences over S of length at most n
Strs(S, n) == UNION {[1..k -> S] : k \in 0..n}

\* s[i..] starts with the word w
StartsAt(s, i, w) ==
    /\ i + Len(w) - 1 <= Len(s)
    /\ \A k \in 1..Len(w) : s[i + k - 1] = w[k]

\* first index >= i that holds no whitespace (Len(s)+1 when there is none)
RECURSIVE RunEnd(_, _)
RunEnd(s, i) ==
    IF i > Len(s) \/ ~IsSpace(s[i]) THEN i ELSE RunEnd(s, i + 1)

\* first index >= i that holds no newline
RECURSIVE NlRunEnd(_, _)
NlRunEnd(s, i) ==
    IF i > Len(s) \/ s[i] # NL THEN i ELSE NlRunEnd(s, i + 1)

\* str.lstrip(), str.rstrip(), str.strip()
RECURSIVE LStrip(_)
LStrip(s) == IF s # <<>> /\ IsSpace(Head(s)) THEN LStrip(Tail(s)) ELSE s

RECURSIVE RStrip(_)
RStrip(s) ==
    IF s # <<>> /\ IsSpace(s[Len(s)]) THEN RStrip(SubSeq(s, 1, Len(s) - 1)) ELSE s

Strip(s) == RStrip(LStrip(s))

\* str.replace(c, to) for a one-character c
RECURSIVE Replace(_, _, _)
Replace(s, c, to) ==
    IF s = <<>> THEN <<>>
    ELSE (IF Head(s) = c THEN to ELSE <<Head(s)>>) \o Replace(Tail(s), c, to)

---------------------------------------------------------------------------
(* post_process_latex: the four re.sub passes and the final strip.  Each   *)
(* re.sub scans left to right, takes the leftmost match, greedy with       *)
(* backtracking, and resumes after the match.                              *)

\* re.sub(r'\s+([.,;:!?])', r'\1', s) from index i
RECURSIVE SubPunctFrom(_, _)
SubPunctFrom(s, i) ==
    IF i > Len(s) THEN <<>>
    ELSE IF IsSpace(s[i])
         THEN LET j == RunEnd(s, i)
              IN  IF j <= Len(s) /\ s[j] \in Punct
                  THEN <<s[j]>> \o SubPunctFrom(s, j + 1)
                  ELSE SubSeq(s, i, j - 1) \o SubPunctFrom(s, j)
         ELSE <<s[i]>> \o SubPunctFrom(s, i + 1)

SubPunct(s) == SubPunctFrom(s, 1)

\* with re.MULTILINE, $ matches at the end of the string and before a newline
AtLineEnd(s, p) == p = Len(s) + 1 \/ s[p] = NL

\* the ends k of the matches of \s+\n$ that start at i: s[i..k-1] is
\* whitespace, s[k] is the newline and $ holds at k+1
NlMatchEnds(s, i) ==
    {k \in (i + 1)..(RunEnd(s, i) - 1) : s[k] = NL /\ AtLineEnd(s, k + 1)}

Max(S) == CHOOSE x \in S : \A y \in S : y <= x

\* re.sub(r'\s+\n$', r'\n', s, flags=re.MULTILINE) from index i
RECURSIVE SubTrailingFrom(_, _)
SubTrailingFrom(s, i) ==
    IF i > Len(s) THEN <<>>
    ELSE IF IsSpace(s[i]) /\ NlMatchEnds(s, i) # {}
         THEN <<NL>> \o SubTrailingFrom(s, Max(NlMatchEnds(s, i)) + 1)
         ELSE <<s[i]>> \o SubTrailingFrom(s, i + 1)

SubTrailing(s) == SubTrailingFrom(s, 1)

\* re.sub(r'\s+\\item', r'\\item', s) from index i
RECURSIVE SubItemFrom(_, _)
SubItemFrom(s, i) ==
    IF i > Len(s) THEN <<>>
    ELSE IF IsSpace(s[i])
         THEN LET j == RunEnd(s, i)
              IN  IF StartsAt(s, j, ItemWord)
                  THEN ItemWord \o SubItemFrom(s, j + Len(ItemWord))
                  ELSE SubSeq(s, i, j - 1) \o SubItemFrom(s, j)
         ELSE <<s[i]>> \o SubItemFrom(s, i + 1)

SubItem(s) == SubItemFrom(s, 1)

\* the number of newlines in s[i..j]
NlCount(s, i, j) == Cardinality({k \in i..j : s[k] = NL})

\* the least repetition count of the group in (\n\s*){3,}
MinBlankRun == 3

\* re.sub(r'(\n\s*){3,}', '\n\n', s) from index i: a match starts at a
\* newline and, its last \s* being greedy, runs to the end of the
\* whitespace run; it exists when the run holds MinBlankRun newlines
RECURSIVE SubBlankFrom(_, _)
SubBlankFrom(s, i) ==
    IF i > Len(s) THEN <<>>
    ELSE IF s[i] = NL /\ NlCount(s, i, RunEnd(s, i) - 1) >= MinBlankRun
         THEN <<NL, NL>> \o SubBlankFrom(s, RunEnd(s, i))
         ELSE <<s[i]>> \o SubBlankFrom(s, i + 1)

SubBlank(s) == SubBlankFrom(s, 1)

post_process_latex(latex_code) ==
    Strip(SubBlank(SubItem(SubTrailing(SubPunct(latex_code)))))

---------------------------------------------------------------------------
(* The parsed tree (BeautifulSoup's NavigableString and Tag).              *)

TextTag == "#text"

TextNode(s) == [tag |-> TextTag, cls |-> {}, enc |-> "", str |-> s, kids |-> <<>>]
Elem(t, c, e, k) == [tag |-> t, cls |-> c, enc |-> e, str |-> <<>>, kids |-> k]

\* Python's None where a Tag is expected, and where a str is expected
None == [tag |-> "#none", cls |-> {}, enc |-> "", str |-> <<>>, kids |-> <<>>]
NoString == <<"None">>

\* truth value of a str-or-None: None and '' are false
Truthy(s) == s # NoString /\ s # <<>>

\* Tag.string: the only child when it is a string, the only child's .string
\* when it is a tag, None otherwise
RECURSIVE StringOf(_)
StringOf(n) ==
    IF Len(n.kids) # 1 THEN NoString
    ELSE IF n.kids[1].tag = TextTag THEN n.kids[1].str
         ELSE StringOf(n.kids[1])

\* Tag.descendants: every node below n, in document order
RECURSIVE Descendants(_), DescendantsFrom(_, _)
Descendants(n) == DescendantsFrom(n, 1)
DescendantsFrom(n, i) ==
    IF i > Len(n.kids) THEN <<>>
    ELSE <<n.kids[i]>> \o Descendants(n.kids[i]) \o DescendantsFrom(n, i + 1)

\* Tag.find(...): the first descendant among the matches, or None
FirstOrNone(hits) == IF hits = <<>> THEN None ELSE Head(hits)

TexEncoding == "application/x-tex"
PanelClass  == "mat-expansion-panel-body"

IsTexAnnotation(n) == n.tag = "annotation" /\ n.enc = TexEncoding
IsCode(n)  == n.tag = "code"
IsPanelDiv(n) == n.tag = "div" /\ PanelClass \in n.cls
IsDiv(n)   == n.tag = "div"
IsBody(n)  == n.tag = "body"

FindAnnotation(n) == FirstOrNone(SelectSeq(Descendants(n), IsTexAnnotation))
FindCode(n)       == FirstOrNone(SelectSeq(Descendants(n), IsCode))
FindPanelDiv(n)   == FirstOrNone(SelectSeq(Descendants(n), IsPanelDiv))
FindDiv(n)        == FirstOrNone(SelectSeq(Descendants(n), IsDiv))
FindBody(n)       == FirstOrNone(SelectSeq(Descendants(n), IsBody))

\* str.lower() on the tag names the model uses
Lower(t) == CASE t = "P" -> "p" [] t = "OL" -> "ol" [] OTHER -> t

---------------------------------------------------------------------------
(* clean_text and html_to_latex.                                           *)

\* re.sub(r'\s+', ' ', s)
RECURSIVE CollapseSpace(_, _)
CollapseSpace(s, i) ==
    IF i > Len(s) THEN <<>>
    ELSE IF IsSpace(s[i]) THEN <<SP>> \o CollapseSpace(s, RunEnd(s, i))
         ELSE <<s[i]>> \o CollapseSpace(s, i + 1)

clean_text(s) == Strip(CollapseSpace(s, 1))

\* a chain of replacements that forgets '#'
EscapeWithoutHash(s) ==
    Replace(Replace(Replace(Replace(s,
        "%", <<BSL, "%">>), "&", <<BSL, "&">>), "_", <<BSL, "_">>),
        "$", <<BSL, "$">>)

\* the text branch's chain of str.replace calls, in the code's order
Escape(s) ==
    Replace(Replace(Replace(Replace(Replace(s,
        "%", <<BSL, "%">>), "&", <<BSL, "&">>), "_", <<BSL, "_">>),
        "#", <<BSL, "#">>), "$", <<BSL, "$">>)

\* the NavigableString branch
TextBranch(s) ==
    LET escaped == Escape(clean_text(s))
    IN  IF escaped # <<>> THEN escaped \o <<SP>> ELSE <<>>

\* what one call returns and does: the returned string, the warnings it
\* printed to stderr and the nodes html_to_latex was called on, in call order
Result(o, w, v) == [out |-> o, warns |-> w, visits |-> v]
EmptyResult == Result(<<>>, <<>>, <<>>)
Cat(a, b) == Result(a.out \o b.out, a.warns \o b.warns, a.visits \o b.visits)

KatexWarning(path) == [kind |-> "katex", tag |-> "ms-katex", at |-> path]
TagWarning(t, path) == [kind |-> "unhandled", tag |-> t, at |-> path]

InlineMath(c)  == <<"$">> \o c \o <<"$", SP>>
DisplayMath(c) == <<BSL, "[", NL>> \o c \o <<NL, BSL, "]", NL, NL>>

\* a widget branch that wraps the math source without .strip()
KatexBranchUnstripped(element) ==
    LET annotation_tag == FindAnnotation(element)
        code_tag == FindCode(element)
    IN  IF annotation_tag # None /\ Truthy(StringOf(annotation_tag))
        THEN IF "inline" \in element.cls
             THEN InlineMath(StringOf(annotation_tag))
             ELSE DisplayMath(StringOf(annotation_tag))
        ELSE IF code_tag # None /\ Truthy(StringOf(code_tag))
             THEN InlineMath(Strip(StringOf(code_tag)))
             ELSE NoString

\* a widget branch whose fallback looks for the first code element that
\* has text
KatexBranchAnyCode(element) ==
    LET annotation_tag == FindAnnotation(element)
        code_tag == FirstOrNone(SelectSeq(Descendants(element),
                        LAMBDA n : IsCode(n) /\ Truthy(StringOf(n))))
    IN  IF annotation_tag # None /\ Truthy(StringOf(annotation_tag))
        THEN IF "inline" \in element.cls
             THEN InlineMath(Strip(StringOf(annotation_tag)))
             ELSE DisplayMath(Strip(StringOf(annotation_tag)))
        ELSE IF code_tag # None
             THEN InlineMath(Strip(StringOf(code_tag)))
             ELSE NoString

\* the ms-katex branch: the string it adds, or NoString when it warns
KatexBranch(element) ==
    LET annotation_tag == FindAnnotation(element)
        code_tag == FindCode(element)
    IN  IF annotation_tag # None /\ Truthy(StringOf(annotation_tag))
        THEN IF "inline" \in element.cls
             THEN InlineMath(Strip(StringOf(annotation_tag)))
             ELSE DisplayMath(Strip(StringOf(annotation_tag)))
        ELSE IF code_tag # None /\ Truthy(StringOf(code_tag))
             THEN InlineMath(Strip(StringOf(code_tag)))
             ELSE NoString

BeginEnumerate == <<BSL, "b", "e", "g", "i", "n", "{", "e", "n", "u", "m",
                    "e", "r", "a", "t", "e", "}">>
EndEnumerate == <<BSL, "e", "n", "d", "{", "e", "n", "u", "m",
                  "e", "r", "a", "t", "e", "}">>
ItemPrefix == <<SP, SP>> \o ItemWord \o <<SP>>

PBranch(inner) == Strip(inner) \o <<NL, NL>>

OlBranch(inner) ==
    BeginEnumerate \o <<NL>> \o Strip(inner) \o <<NL>> \o EndEnumerate \o <<NL, NL>>

\* re.sub(r'\n\n+', '\n', s)
RECURSIVE CollapseNewlines(_, _)
CollapseNewlines(s, i) ==
    IF i > Len(s) THEN <<>>
    ELSE IF s[i] = NL /\ NlRunEnd(s, i) > i + 1
         THEN <<NL>> \o CollapseNewlines(s, NlRunEnd(s, i))
         ELSE <<s[i]>> \o CollapseNewlines(s, i + 1)

\* a list-item branch without the re.sub on newline runs
LiBranchUncollapsed(inner) == ItemPrefix \o Strip(inner) \o <<NL>>

LiBranch(inner) == ItemPrefix \o CollapseNewlines(Strip(inner), 1) \o <<NL>>

\* the tags passed through without a warning
PassThrough == {"ms-text-chunk", "ms-cmark-node", "div", "pre", "code",
                "math", "semantics"}

\* a dispatch whose allow-list lacks 'div'
HandledWithoutDiv(element, tag_name) ==
    \/ tag_name \in {"p", "span", "ms-katex", "br", "ol", "li"}
    \/ tag_name = "div" /\ PanelClass \in element.cls
    \/ tag_name \in PassThrough \ {"div"}

\* whether a branch other than the final else handles the tag
Handled(element, tag_name) ==
    \/ tag_name \in {"p", "span", "ms-katex", "br", "ol", "li"}
    \/ tag_name = "div" /\ PanelClass \in element.cls
    \/ tag_name \in PassThrough

\* what the element's own branch prints to stderr
OwnWarnings(element, tag_name, path) ==
    IF tag_name = "ms-katex"
    THEN IF KatexBranch(element) = NoString THEN <<KatexWarning(path)>> ELSE <<>>
    ELSE IF Handled(element, tag_name) THEN <<>>
         ELSE <<TagWarning(tag_name, path)>>

\* latex_string of the element's branch, given the concatenation of its
\* children's results
OwnOutput(element, tag_name, inner) ==
    CASE tag_name = "p"        -> PBranch(inner)
      [] tag_name = "span"     -> inner
      [] tag_name = "ms-katex" ->
            IF KatexBranch(element) = NoString THEN <<>> ELSE KatexBranch(element)
      [] tag_name = "br"       -> <<NL>>
      [] tag_name = "ol"       -> OlBranch(inner)
      [] tag_name = "li"       -> LiBranch(inner)
      [] tag_name = "div" /\ PanelClass \in element.cls -> inner
      [] tag_name \in PassThrough -> inner
      [] OTHER                 -> inner

\* a walk that also descends into math widgets
RecursesEverywhere(tag_name) == tag_name # "br"

\* the branches that loop over element.children
Recurses(tag_name) == tag_name \notin {"ms-katex", "br"}

\* html_to_latex(element) with the element's place in the tree; a node is
\* a NavigableString or a Tag, so the "neither" exit of line 53 is never
\* taken
RECURSIVE html_to_latex(_, _), EmitChildren(_, _, _)
html_to_latex(element, path) ==
    IF element.tag = TextTag
    THEN Result(TextBranch(element.str), <<>>, <<path>>)
    ELSE LET tag_name == Lower(element.tag)
             kids == IF Recurses(tag_name) THEN EmitChildren(element, path, 1)
                     ELSE EmptyResult
         IN  Result(OwnOutput(element, tag_name, kids.out),
                    OwnWarnings(element, tag_name, path) \o kids.warns,
                    <<path>> \o kids.visits)

EmitChildren(element, path, i) ==
    IF i > Len(element.kids) THEN EmptyResult
    ELSE Cat(html_to_latex(element.kids[i], Append(path, i)),
             EmitChildren(element, path, i + 1))

---------------------------------------------------------------------------
(* The trees handed to html_to_latex.                                      *)

Plain(t) == [tag |-> t, cls |-> {}]
Panel    == [tag |-> "div", cls |-> {PanelClass}]
Make(shape, kids) == Elem(shape.tag, shape.cls, "", kids)

Br == Elem("br", {}, "", <<>>)

\* a lone Text node with any raw content
TextAlphabet == {SP, NL, "A", BSL, "%", "&", "_", "#", "$"}
LoneTexts == {TextNode(s) : s \in Strs(TextAlphabet, MaxText)}

\* the inside of a math widget
Annotation(e, k) == Elem("annotation", {}, e, k)
KatexInner ==
    { Annotation(TexEncoding, <<TextNode(<<"X">>)>>),
      Annotation(TexEncoding, <<TextNode(<<SP, "Y", NL>>)>>),
      Annotation(TexEncoding, <<TextNode(<<SP>>)>>),
      Annotation(TexEncoding, <<>>),
      Annotation("text/plain", <<TextNode(<<"W">>)>>),
      Elem("math", {}, "", <<Elem("semantics", {}, "",
            <<Annotation(TexEncoding, <<TextNode(<<"V">>)>>)>>)>>),
      Elem("code", {}, "", <<TextNode(<<"C">>)>>),
      Elem("code", {}, "", <<TextNode(<<NL, "D", SP>>)>>),
      Elem("code", {}, "", <<>>),
      Elem("span", {}, "", <<Elem("code", {}, "", <<TextNode(<<"E">>)>>)>>) }

Widgets ==
    {Elem("ms-katex", c, "", k) :
        c \in {{}, {"inline"}, {"ng-star-inserted"}}, k \in Strs(KatexInner, MaxKids)}

\* the widgets put inside other elements
InlineWidget  == Elem("ms-katex", {"inline"}, "",
                      <<Annotation(TexEncoding, <<TextNode(<<"X">>)>>)>>)
DisplayWidget == Elem("ms-katex", {}, "",
                      <<Annotation(TexEncoding, <<TextNode(<<"Y">>)>>)>>)
CodeWidget    == Elem("ms-katex", {}, "",
                      <<Elem("code", {}, "", <<TextNode(<<"C">>)>>)>>)
BrokenWidget  == Elem("ms-katex", {}, "", <<Elem("span", {}, "", <<>>)>>)

Atoms ==
    {TextNode(<<"A">>), TextNode(<<"B">>), TextNode(<<SP, NL>>), Br,
     InlineWidget, DisplayWidget, CodeWidget, BrokenWidget}

OuterShapes ==
    {Plain("p"), Plain("span"), Plain("ol"), Plain("li"), Plain("div"), Panel,
     Plain("pre"), Plain("em"), Plain("annotation"), Plain("OL")}

\* one element over atoms
Shallow == {Make(sh, k) : sh \in OuterShapes, k \in Strs(Atoms, MaxKids)}

InnerShapes == {Plain("p"), Plain("li"), Plain("ol"), Plain("em")}
InnerAtoms  == {TextNode(<<"A">>), TextNode(<<"B">>), Br, DisplayWidget}

\* an element with one child
Wrapped == {Make(sh, <<a>>) : sh \in InnerShapes, a \in InnerAtoms}

\* one element over one-child elements and text
Nested ==
    {Make(sh, k) : sh \in OuterShapes,
                   k \in Strs(Wrapped \cup {TextNode(<<"A">>), Br}, MaxKids)}

\* a list inside a list item inside a list
Deep ==
    {Make(Plain("ol"), <<Make(Plain("li"), <<a, w>>)>>) :
        a \in InnerAtoms, w \in Wrapped}

---------------------------------------------------------------------------
(* The run of the emitter on one tree.                                     *)

InitEmit ==
    /\ pc = "emit"
    /\ \/ node \in LoneTexts
       \/ node \in Widgets
       \/ node \in Shallow
       \/ node \in Nested
       \/ node \in Deep
    /\ emitted = EmptyResult
    /\ text = Idle /\ pass2 = Idle /\ cleaned = Idle /\ recleaned = Idle
    /\ argc = 0 /\ inFile = "idle" /\ outOk = "idle" /\ soup = None
    /\ outFile = NoFile /\ exitCode = -1 /\ ioLog = <<>>

\* the outermost call html_to_latex(node); the tree is only read
Emit ==
    /\ pc = "emit"
    /\ emitted' = html_to_latex(node, <<>>)
    /\ pc' = "emitted"
    /\ UNCHANGED <<node, cleanVars, mainVars>>

NextEmit == Emit

Spec == InitEmit /\ [][NextEmit]_vars

---------------------------------------------------------------------------
(* The run of the clean-up on one string, twice.                           *)


CoreAlphabet == {<<SP>>, <<NL>>, <<"a">>}
TokAlphabet  == {<<SP>>, <<NL>>, <<TAB>>, <<"a">>, <<".">>, ItemWord}

CoreInputs == {Flatten(t) : t \in Strs(CoreAlphabet, MaxLen)}
TokInputs  == {Flatten(t) : t \in Strs(TokAlphabet, MaxTok)}

InitClean ==
    /\ pc = "clean"
    /\ text \in CoreInputs \/ text \in TokInputs
    /\ pass2 = Idle /\ cleaned = Idle /\ recleaned = Idle
    /\ node = None /\ emitted = EmptyResult
    /\ argc = 0 /\ inFile = "idle" /\ outOk = "idle" /\ soup = None
    /\ outFile = NoFile /\ exitCode = -1 /\ ioLog = <<>>

Clean ==
    /\ pc = "clean"
    /\ pass2' = SubTrailing(SubPunct(text))
    /\ cleaned' = post_process_latex(text)
    /\ pc' = "reclean"
    /\ UNCHANGED <<text, recleaned, emitVars, mainVars>>

Reclean ==
    /\ pc = "reclean"
    /\ recleaned' = post_process_latex(cleaned)
    /\ pc' = "cleaned"
    /\ UNCHANGED <<text, pass2, cleaned, emitVars, mainVars>>

NextClean == Clean \/ Reclean

SpecClean == InitClean /\ [][NextClean]_vars

---------------------------------------------------------------------------
(* The command-line run (the __main__ block).                              *)

\* the argument count the run needs: the script's name and two paths
NeededArgc == 3
\* the largest len(sys.argv) tried
MaxArgc == 5

Document(k) == Elem("[document]", {}, "", k)

DocShapes  == {Plain("div"), Panel, Plain("body"), Plain("span")}
DocInner   ==
    {TextNode(<<"A", SP, ".">>), Br}
        \cup {Make(sh, <<TextNode(<<"B">>)>>) : sh \in {Plain("div"), Panel, Plain("p")}}

\* the documents an input file may hold
Soups ==
    {Document(<<>>), Document(<<TextNode(<<"A">>)>>)}
        \cup {Document(<<Make(sh, k)>>) : sh \in DocShapes, k \in Strs(DocInner, MaxKids)}

\* soup.find('div', class_=...), else soup.find('div') or soup.find('body')
FindContainer(doc) ==
    IF FindPanelDiv(doc) # None THEN FindPanelDiv(doc)
    ELSE IF FindDiv(doc) # None THEN FindDiv(doc)
         ELSE FindBody(doc)

InitMain ==
    /\ pc = "args"
    /\ argc \in 1..MaxArgc
    /\ inFile \in {"missing", "unreadable", "ok"}
    /\ outOk \in {"ok", "open_fails", "write_fails"}
    /\ soup \in Soups
    /\ outFile = NoFile /\ exitCode = -1 /\ ioLog = <<>>
    /\ node = None /\ emitted = EmptyResult
    /\ text = Idle /\ pass2 = Idle /\ cleaned = Idle /\ recleaned = Idle

\* sys.exit(code)
Exit(code) == pc' = "exited" /\ exitCode' = code

\* an argument check that only rejects too few arguments
CheckArgsAtLeast ==
    /\ pc = "args"
    /\ IF argc < NeededArgc THEN Exit(1) ELSE pc' = "read" /\ UNCHANGED exitCode
    /\ UNCHANGED <<cleanVars, emitVars, argc, inFile, outOk, soup, outFile, ioLog>>

\* if len(sys.argv) != 3: usage, exit 1
CheckArgs ==
    /\ pc = "args"
    /\ IF argc # NeededArgc THEN Exit(1) ELSE pc' = "read" /\ UNCHANGED exitCode
    /\ UNCHANGED <<cleanVars, emitVars, argc, inFile, outOk, soup, outFile, ioLog>>

\* open(input_html_file) and f.read(): exit 1 on FileNotFoundError or any
\* other exception
ReadInput ==
    /\ pc = "read"
    /\ ioLog' = Append(ioLog, "open_input")
    /\ IF inFile = "ok" THEN pc' = "find" /\ UNCHANGED exitCode ELSE Exit(1)
    /\ UNCHANGED <<cleanVars, emitVars, argc, inFile, outOk, soup, outFile>>

\* BeautifulSoup(html_content) and the search for the content container:
\* exit 1 when there is none
FindContent ==
    /\ pc = "find"
    /\ IF FindContainer(soup) = None
       THEN Exit(1) /\ UNCHANGED node
       ELSE pc' = "convert" /\ node' = FindContainer(soup) /\ UNCHANGED exitCode
    /\ UNCHANGED <<cleanVars, emitted, argc, inFile, outOk, soup, outFile, ioLog>>

\* latex_body = html_to_latex(content_div), then post_process_latex
Convert ==
    /\ pc = "convert"
    /\ emitted' = html_to_latex(node, <<>>)
    /\ cleaned' = post_process_latex(html_to_latex(node, <<>>).out)
    /\ pc' = "write"
    /\ UNCHANGED <<text, pass2, recleaned, node, mainVars>>

\* open(output_latex_file, 'w') and f.write(latex_body_cleaned): exit 1 on
\* any exception; opening for writing empties the file
WriteOutput ==
    /\ pc = "write"
    /\ ioLog' = Append(ioLog, "open_output")
    /\ CASE outOk = "ok" ->
              outFile' = File("written", cleaned) /\ pc' = "complete"
                /\ UNCHANGED exitCode
         [] outOk = "write_fails" ->
              outFile' = File("truncated", <<>>) /\ Exit(1)
         [] OTHER ->
              UNCHANGED outFile /\ Exit(1)
    /\ UNCHANGED <<cleanVars, emitVars, argc, inFile, outOk, soup>>

\* "Conversion complete." and the end of the script
Complete ==
    /\ pc = "complete"
    /\ Exit(0)
    /\ UNCHANGED <<cleanVars, emitVars, argc, inFile, outOk, soup, outFile, ioLog>>

NextMain ==
    CheckArgs \/ ReadInput \/ FindContent \/ Convert \/ WriteOutput \/ Complete

SpecMain == InitMain /\ [][NextMain]_vars

---------------------------------------------------------------------------
(* Helpers of the properties.                                              *)

Range(f) == {f[i] : i \in DOMAIN f}

\* the node of tree n that the path of child indices leads to
RECURSIVE NodeAt(_, _)
NodeAt(n, path) ==
    IF path = <<>> THEN n ELSE NodeAt(n.kids[Head(path)], Tail(path))

\* the paths of the nodes of n in document order (pre-order, depth-first);
\* with prune, the nodes below a math widget are left out
RECURSIVE PreOrder(_, _, _), PreOrderFrom(_, _, _, _)
PreOrder(n, path, prune) ==
    <<path>> \o (IF prune /\ n.tag = "ms-katex" THEN <<>>
                 ELSE PreOrderFrom(n, path, prune, 1))
PreOrderFrom(n, path, prune, i) ==
    IF i > Len(n.kids) THEN <<>>
    ELSE PreOrder(n.kids[i], Append(path, i), prune)
            \o PreOrderFrom(n, path, prune, i + 1)

AllSpace(s) == \A i \in 1..Len(s) : IsSpace(s[i])

\* the capital letters that only text content and math source hold
Markers == {"A", "B", "C", "D", "E", "V", "W", "X", "Y"}
MarkersOf(s) == SelectSeq(s, LAMBDA c : c \in Markers)

Emitted == pc = "emitted"

---------------------------------------------------------------------------
(* Properties of post_process_latex (specification SpecClean).             *)

\* C1: post_process_latex is idempotent: cleaning the cleaned string again
\* gives the cleaned string.
C1_Idempotent == pc = "cleaned" => recleaned = cleaned

NoSpaceBeforeNewline(s) ==
    \A i \in 2..Len(s) : s[i] = NL => s[i - 1] \notin {SP, TAB}

\* C9: after the second pass, and in the final result, no newline is
\* immediately preceded by a space or a tab.
C9_NoSpaceBeforeNewline ==
    pc # "clean" => NoSpaceBeforeNewline(pass2) /\ NoSpaceBeforeNewline(cleaned)

---------------------------------------------------------------------------
(* Properties of html_to_latex (specification Spec).                       *)

IsItemOf(n, s) ==
    n.tag = "li" /\ Len(n.kids) = 1 /\ n.kids[1] = TextNode(s)

IsTwoItemList(n) ==
    /\ n.tag = "ol" /\ Len(n.kids) = 2
    /\ \E a, b \in {<<"A">>, <<"B">>} : IsItemOf(n.kids[1], a) /\ IsItemOf(n.kids[2], b)

\* C2: an ordered list of two items with plain texts a and b emits
\* \begin{enumerate} NL "  \item a" NL "  \item b" NL \end{enumerate} NL NL,
\* the first item keeping its two-space prefix.
C2_ListRoundTrip ==
    Emitted /\ IsTwoItemList(node) =>
        emitted.out =
            BeginEnumerate \o <<NL>>
                \o ItemPrefix \o node.kids[1].kids[1].str \o <<NL>>
                \o ItemPrefix \o node.kids[2].kids[1].str \o <<NL>>
                \o EndEnumerate \o <<NL, NL>>

\* the first TeX annotation below a widget, the first code element below it
FirstOf(seq) == IF seq = <<>> THEN None ELSE seq[1]
TexAnnotationOf(n) ==
    FirstOf(SelectSeq(Descendants(n),
                      LAMBDA d : d.tag = "annotation" /\ d.enc = "application/x-tex"))
CodeOf(n) == FirstOf(SelectSeq(Descendants(n), LAMBDA d : d.tag = "code"))
CodesWithText(n) ==
    SelectSeq(Descendants(n), LAMBDA d : d.tag = "code" /\ Truthy(StringOf(d)))

HasMathSource(n) ==
    /\ n.tag = "ms-katex"
    /\ TexAnnotationOf(n) # None
    /\ Truthy(StringOf(TexAnnotationOf(n)))

C3_Shape(n, c) ==
    IF "inline" \in n.cls
    THEN <<"$">> \o c \o <<"$", SP>>
    ELSE <<BSL, "[", NL>> \o c \o <<NL, BSL, "]", NL, NL>>

\* C3 as stated: a math widget whose TeX annotation holds the non-empty
\* text c emits exactly $c$ and one space when its classes hold "inline",
\* else exactly the display block \[ NL c NL \] NL NL, with no warning.
C3_MathVerbatim ==
    Emitted /\ HasMathSource(node) =>
        /\ emitted.out = C3_Shape(node, StringOf(TexAnnotationOf(node)))
        /\ emitted.warns = <<>>

\* C3 as amended: the same with c stripped of its leading and trailing
\* whitespace, c being the text of the first TeX annotation in document
\* order; no warning, and nothing else below the widget is emitted or
\* visited.
C3_MathStripped ==
    Emitted /\ HasMathSource(node) =>
        /\ emitted.out = C3_Shape(node, Strip(StringOf(TexAnnotationOf(node))))
        /\ emitted.warns = <<>>
        /\ emitted.visits = <<<<>>>>

C3_Witness ==
    /\ Emitted /\ HasMathSource(node)
    /\ "inline" \in node.cls
    /\ Len(node.kids) = 2
    /\ StringOf(TexAnnotationOf(node)) = <<SP, "Y", NL>>
    /\ emitted.out = <<"$", "Y", "$", SP>>

LacksMathSource(n) == n.tag = "ms-katex" /\ ~HasMathSource(n)

\* C4 as stated: a math widget with no usable TeX annotation emits $c$ and
\* one space for the text c of its first code descendant that has text,
\* with no warning; with no such descendant it emits nothing and warns
\* once.
C4_FallbackVerbatim ==
    Emitted /\ LacksMathSource(node) =>
        IF CodesWithText(node) # <<>>
        THEN /\ emitted.out = <<"$">> \o StringOf(CodesWithText(node)[1]) \o <<"$", SP>>
             /\ emitted.warns = <<>>
        ELSE /\ emitted.out = <<>>
             /\ emitted.warns = <<KatexWarning(<<>>)>>

\* the widgets among the children of n that have no math source at all
BrokenKids(n) ==
    {i \in 1..Len(n.kids) :
        /\ LacksMathSource(n.kids[i])
        /\ ~(CodeOf(n.kids[i]) # None /\ Truthy(StringOf(CodeOf(n.kids[i]))))}

\* C4 as amended: the fallback reads the first code descendant in document
\* order; when that one has text c the widget emits $strip(c)$ and one
\* space without a warning; when there is no code descendant, or the first
\* one has no text, it emits nothing and warns once.  A widget that warns
\* does not stop the walk: a parent's other children are still visited.
C4_FallbackFirstCode ==
    /\ Emitted /\ LacksMathSource(node) =>
          IF CodeOf(node) # None /\ Truthy(StringOf(CodeOf(node)))
          THEN /\ emitted.out = <<"$">> \o Strip(StringOf(CodeOf(node))) \o <<"$", SP>>
               /\ emitted.warns = <<>>
          ELSE /\ emitted.out = <<>>
               /\ emitted.warns = <<KatexWarning(<<>>)>>
    /\ Emitted /\ node.tag \in {"span", "div"} /\ BrokenKids(node) # {} =>
          /\ \A i \in 1..Len(node.kids) : <<i>> \in Range(emitted.visits)
          /\ \A i \in BrokenKids(node) : KatexWarning(<<i>>) \in Range(emitted.warns)
          /\ Len(emitted.warns) = Cardinality(BrokenKids(node))

C4_Witness ==
    /\ Emitted /\ LacksMathSource(node)
    /\ Len(node.kids) = 2
    /\ node.kids[1].tag = "annotation"
    /\ StringOf(CodeOf(node)) = <<NL, "D", SP>>
    /\ emitted.out = <<"$", "D", "$", SP>>

\* the tags C5 calls handled, and the allow-list among them
C5_Special == {"p", "span", "ms-katex", "br", "ol", "li"}
C5_AllowList == {"ms-text-chunk", "ms-cmark-node", "div", "pre", "code",
                 "math", "semantics"}
C5_Unrecognized(n) ==
    n.tag # TextTag /\ Lower(n.tag) \notin C5_Special \cup C5_AllowList

RECURSIVE C5_ChildrenOut(_, _)
C5_ChildrenOut(n, i) ==
    IF i > Len(n.kids) THEN <<>>
    ELSE html_to_latex(n.kids[i], <<i>>).out \o C5_ChildrenOut(n, i + 1)

C5_OwnWarnings(res) == SelectSeq(res.warns, LAMBDA w : w.at = <<>>)
C5_TagWarnings(res) == SelectSeq(res.warns, LAMBDA w : w.kind = "unhandled")

\* C5: an element with an unrecognized tag returns the concatenation of its
\* children's results and warns once, naming the tag; an element of the
\* allow-list (any div included) returns the same concatenation and does
\* not warn; over a tree there is one unhandled-tag warning per
\* unrecognized element the emitter reaches.
C5_UnknownTagPassthrough ==
    Emitted =>
        /\ C5_Unrecognized(node) =>
              /\ emitted.out = C5_ChildrenOut(node, 1)
              /\ C5_OwnWarnings(emitted) = <<TagWarning(Lower(node.tag), <<>>)>>
        /\ node.tag \in C5_AllowList =>
              /\ emitted.out = C5_ChildrenOut(node, 1)
              /\ C5_OwnWarnings(emitted) = <<>>
        /\ Len(C5_TagWarnings(emitted)) =
              Cardinality({i \in 1..Len(emitted.visits) :
                              C5_Unrecognized(NodeAt(node, emitted.visits[i]))})

C5_Witness ==
    /\ Emitted /\ node.tag = "em" /\ Len(node.kids) = 2
    /\ node.kids[1].tag = "em" /\ node.kids[2].tag = "p"
    /\ Len(C5_TagWarnings(emitted)) = 2
    /\ emitted.out = <<"A", SP, "B", NL, NL>>

C6_Specials == {"%", "&", "_", "#", "$"}
C6_Escaped(c) == IF c \in C6_Specials THEN <<BSL, c>> ELSE <<c>>

\* s starts with a character that is no whitespace: every character in
\* order, a special one behind a backslash, a whitespace run inside s as
\* one space, a whitespace run at the end as nothing
RECURSIVE C6_Body(_)
C6_Body(s) ==
    IF s = <<>> \/ AllSpace(s) THEN <<>>
    ELSE IF IsSpace(s[1])
         THEN (IF IsSpace(s[2]) THEN <<>> ELSE <<SP>>) \o C6_Body(Tail(s))
         ELSE C6_Escaped(s[1]) \o C6_Body(Tail(s))

\* C6: a Text node with raw content s emits nothing when s is empty or all
\* whitespace; otherwise s with every whitespace run as one space, without
\* leading and trailing whitespace, each of % & _ # $ behind one added
\* backslash, and one space after it.
C6_TextEmission ==
    Emitted /\ node.tag = TextTag =>
        emitted.out =
            IF AllSpace(node.str) THEN <<>>
            ELSE C6_Body(SubSeq(node.str, RunEnd(node.str, 1), Len(node.str))) \o <<SP>>

C6_Witness ==
    /\ Emitted /\ node.tag = TextTag
    /\ node.str = <<NL, "$", SP, "%">>
    /\ emitted.out = <<BSL, "$", SP, BSL, "%", SP>>

\* C8 as stated: the emitter is called on every node of the tree exactly
\* once, in document order, the nodes below a math widget included.
C8_VisitsEveryNode ==
    Emitted => emitted.visits = PreOrder(node, <<>>, FALSE)

\* what a visited node itself adds to the output, as marker letters
C8_Contribution(n) ==
    IF n.tag = TextTag THEN MarkersOf(n.str)
    ELSE IF n.tag = "ms-katex" THEN MarkersOf(html_to_latex(n, <<>>).out)
         ELSE <<>>

RECURSIVE C8_Contributions(_, _, _)
C8_Contributions(n, paths, i) ==
    IF i > Len(paths) THEN <<>>
    ELSE C8_Contribution(NodeAt(n, paths[i])) \o C8_Contributions(n, paths, i + 1)

C8_VisitedInOrder ==
    Emitted =>
        /\ emitted.visits = PreOrder(node, <<>>, TRUE)
        /\ MarkersOf(emitted.out)
              = C8_Contributions(node, PreOrder(node, <<>>, TRUE), 1)

\* C8 as amended: the emitter is called exactly once on every node that is
\* not below a math widget, in document order, and on no node below a math
\* widget; what the visited nodes add appears in the output in document
\* order; the tree is left as it was.
C8_VisitsOutsideWidgets == [](C8_VisitedInOrder) /\ [][node' = node]_vars

C8_Witness ==
    /\ Emitted /\ node.tag = "ol" /\ Len(node.kids) = 1
    /\ node.kids[1].tag = "li" /\ Len(node.kids[1].kids) = 2
    /\ node.kids[1].kids[1] = DisplayWidget
    /\ node.kids[1].kids[2].tag = "p"
    /\ emitted.visits = <<<<>>, <<1>>, <<1, 1>>, <<1, 2>>, <<1, 2, 1>>>>
    /\ MarkersOf(emitted.out) = <<"Y", "B">>

C10_WellFormedItem(s) ==
    /\ Len(s) > Len(ItemPrefix)
    /\ SubSeq(s, 1, Len(ItemPrefix)) = <<SP, SP, BSL, "i", "t", "e", "m", SP>>
    /\ s[Len(s)] = NL
    /\ s[Len(s) - 1] # NL
    /\ \A i \in 1..(Len(s) - 1) : ~(s[i] = NL /\ s[i + 1] = NL)

C10_Items(n) ==
    {i \in 1..Len(emitted.visits) : Lower(NodeAt(n, emitted.visits[i]).tag) = "li"}

\* C10: what a list item emits, whatever its children, starts with the
\* two-space \item prefix, ends with exactly one newline and holds no two
\* consecutive newlines.
C10_ItemHasNoParagraphBreak ==
    Emitted =>
        \A i \in C10_Items(node) :
            C10_WellFormedItem(
                html_to_latex(NodeAt(node, emitted.visits[i]), emitted.visits[i]).out)

C10_Witness ==
    /\ Emitted /\ node.tag = "li" /\ Len(node.kids) = 2
    /\ node.kids[1].tag = "p" /\ node.kids[2].tag = "p"
    /\ emitted.out = ItemPrefix \o <<"A", NL, "B", NL>>

---------------------------------------------------------------------------
(* Properties of the command-line run (specification SpecMain).            *)

C7_OutputTouched == "open_output" \in Range(ioLog) \/ outFile # NoFile
C7_InputGood ==
    /\ argc - 1 = 2
    /\ inFile = "ok"
    /\ \E i \in 1..Len(Descendants(soup)) : Descendants(soup)[i].tag \in {"div", "body"}

\* C7: the output file is opened only after the argument count was two,
\* the input was read and a container was found; a run with a usage error,
\* a missing or unreadable input or no container exits with code 1 without
\* opening the output, a usage error before any file operation; exit code
\* 0 comes only after the output was written.
C7_OutputOnlyAfterChecks ==
    /\ C7_OutputTouched \/ pc \in {"convert", "write", "complete"} => C7_InputGood
    /\ pc = "exited" /\ ~C7_InputGood =>
          exitCode = 1 /\ ~C7_OutputTouched
    /\ pc = "exited" /\ argc - 1 # 2 => ioLog = <<>>
    /\ exitCode = 0 =>
          /\ pc = "exited"
          /\ outFile = File("written", post_process_latex(html_to_latex(node, <<>>).out))
          /\ ioLog = <<"open_input", "open_output">>
    /\ pc = "exited" <=> exitCode # -1

C7_Witness ==
    /\ pc = "exited" /\ exitCode = 0
    /\ Len(soup.kids) = 1 /\ soup.kids[1].tag = "div"
    /\ emitted.out = <<"B", NL, NL, "A", SP, ".", SP>>
    /\ outFile = File("written", <<"B", NL, NL, "A", ".">>)

=============================================================================
